---- MODULE Spec2Model ----
(***************************************************************************)
(* Hero motion controller of src/src/scripts/homeMotion.ts                 *)
(* (initHeroSequence): scroll tracker, star field, title sequencer and     *)
(* orbit hover-pause, as one state machine.                                *)
(*                                                                         *)
(* Numbers.  The script computes in floating point.  Here every fraction   *)
(* is a fixed-point integer in thousandths (1000 stands for 1.0), times    *)
(* are integer milliseconds (a value in seconds is the same integer read   *)
(* in thousandths), screen lengths are integer pixels and CSS translate    *)
(* values are tenths of a pixel (toFixed(1)).  Divisions round down.       *)
(*                                                                         *)
(* Star pool.  The loop of drawStarField reads and writes only the star it *)
(* visits, so the pool is carried as its length (starsLength) and the      *)
(* stars of a window of indices that the model follows (stars); the length *)
(* of the window is fixed by the initial state.                            *)
(***************************************************************************)
EXTENDS Integers, Sequences, FiniteSets, TLC

VARIABLES
    \* ---- environment fixed at construction ----
    reduceMotion,     \* matchMedia("(prefers-reduced-motion: reduce)").matches
    lowPowerDevice,   \* deviceMemory <= 4 or hardwareConcurrency <= 4
    isTouchDevice,    \* "ontouchstart" in window || navigator.maxTouchPoints > 0
    rawConfig,        \* the attribute data-motion-config of the wrapper
    config,           \* MotionConfig returned by parseConfig
    parseThrew,       \* parseConfig ended in an exception
    numSlides,        \* slides.length (>= 1, else initHeroSequence returns)
    globeSubdivisions,   \* the argument of the one call of generateHexGlobe
    coreParticlesLength, \* coreParticles.length
    numNodes,         \* orbitNodes.length
    ringAttrs,        \* data-ring attribute of each orbit node
    nodeRingAssignments, orbitAngles,
    threw,            \* the latest assignNodesToRings ended in a TypeError
    \* ---- clock ----
    clock,            \* performance.now(), ms
    lastTime,         \* ms
    started,          \* the init sequence (lines 1943-1955) has finished
    pendingFrames,    \* requested animation frames not yet run
    \* ---- scroll tracker / pointer ----
    scrollProgress, scrollEnergy, pointerEnergy,
    targetMouseX, targetMouseY, mouseX, mouseY,
    \* ---- viewport and star pool ----
    width, height, isMobile, spread,
    starsLength,      \* stars.length
    stars,            \* the followed stars, a sequence of Star records
    \* ---- title slides (class list and inline style of each slide) ----
    slideDom,
    \* ---- orbit hover-pause ----
    orbitPaused, pauseTimeOffset, pauseStartTime,
    \* ---- drag spin and tilt (ten-thousandths of a radian), gesture state ----
    touchSpinOffset, touchSpinVelocity, touchTiltOffset, touchTiltVelocity,
    isTouchDragging, touchStartX, touchStartY,
    isMouseDragging, mouseStartX, mouseStartY,
    \* ---- spoke pulses: per node, per pulse, [progress, speed] ----
    spokePulses,
    \* ---- orbit nodes that carry the class is-expanded ----
    expanded,
    \* ---- history variables (not program state) ----
    reported,         \* self.progress of the latest onUpdate
    inputs,           \* number of input events handled
    frames,           \* number of animation frames run
    draws,            \* number of runs of draw
    resizes,          \* number of runs of resize after construction
    warpPassed,       \* warpStrength argument of the latest drawStarField
    starLog,          \* per followed star: what the latest frame did with it
    slideArg,         \* argument of the latest updateSlidesFlyThrough
    hovered,          \* orbit nodes with a mouseenter not yet followed by mouseleave
    pausedTotal,      \* ms of clock time that passed while orbitPaused
    drawn,            \* what the latest run of draw computed and handed on
    lastInput,        \* the latest drag or tap event and what its handler did;
                      \* for touchend and mouseup, the tilt at that moment
    mouseHeld,        \* an accepted mousedown has not been followed by a mouseup
    gesture           \* the touch gesture under way: finger down, clientX of its
                      \* touchstart, whether touchStart took that touchstart,
                      \* clientX of the latest touchmove that touchMove acted
                      \* on, and the spin the touch handlers added since

baseVars   == <<reduceMotion, lowPowerDevice, isTouchDevice, rawConfig, config, parseThrew,
                numSlides, globeSubdivisions, coreParticlesLength>>
ringVars   == <<numNodes, ringAttrs, nodeRingAssignments, orbitAngles, threw>>
envVars    == <<baseVars, ringVars>>
clockVars  == <<clock, lastTime, started, pendingFrames>>
energyVars == <<scrollProgress, scrollEnergy, pointerEnergy,
                targetMouseX, targetMouseY, mouseX, mouseY>>
starVars   == <<width, height, isMobile, spread, starsLength, stars>>
orbitVars  == <<orbitPaused, pauseTimeOffset, pauseStartTime>>
motionVars == <<touchSpinOffset, touchSpinVelocity, touchTiltOffset, touchTiltVelocity>>
gestureVars == <<isTouchDragging, touchStartX, touchStartY,
                 isMouseDragging, mouseStartX, mouseStartY>>
histVars   == <<reported, inputs, frames, draws, resizes, warpPassed, starLog,
                slideArg, hovered, pausedTotal, drawn, lastInput, mouseHeld, gesture, gesture>>
vars == <<envVars, clockVars, energyVars, starVars, slideDom, orbitVars,
          motionVars, gestureVars, spokePulses, expanded, histVars>>

----------------------------------------------------------------------------
(* Bounds of the exploration *)

MaxInputs == 3       \* input events (scroll updates, pointer moves, resizes)
MaxFrames == 4       \* animation frames
MaxTicks  == 4       \* clock ticks
MaxStarInputs == 2   \* the same three limits where stars are followed
MaxStarFrames == 2
MaxStarTicks  == 1
MaxSlides == 4       \* title slides
MaxNodes  == 3       \* orbit nodes
TrackedStars == 2    \* followed stars of the pool
MaxDragInputs == 4   \* input events where drags are followed
MaxDragFrames == 2
MaxDecayInputs == 2  \* input events where the decay of the energies is followed
MaxDecayFrames == 70
FramesToRest == 64   \* frames that bring an energy of 2 to 0, and one more
MaxStageInputs == 2  \* scroll updates where the stage blender is followed
MaxStageFrames == 2
MaxTaps == 5
MaxTiltInputs == 4   \* input events where the tilt is followed
MaxTiltFrames == 2
MaxTouchInputs == 4  \* input events where a touch gesture is followed
MaxTouchFrames == 1
MaxSpringInputs == 4 \* input events where the spring-back of the tilt is followed
MaxSpringFrames == 101
FramesToSettle == 100  \* frames that bring the tilt left by these inputs to 0

----------------------------------------------------------------------------
(* Arithmetic helpers *)

Min(a, b) == IF a < b THEN a ELSE b
Max(a, b) == IF a > b THEN a ELSE b
Abs(a) == IF a < 0 THEN -a ELSE a

\* const clamp = (value, min, max) => Math.min(max, Math.max(min, value))
Clamp(value, lo, hi) == Min(hi, Max(lo, value))

\* Math.round of the rational num/den (den > 0): floor(x + 0.5)
RoundDiv(num, den) == (2 * num + den) \div (2 * den)

\* const lerp = (start, end, t) => start + (end - start) * t, t in thousandths
Lerp(start, end, t) == start + ((end - start) * t) \div 1000

\* smoothstep (lines 150-153).  The divisor max(edge1 - edge0, 0.0001) is
\* below the resolution when edge1 <= edge0: x is then 1 for every value
\* above edge0 and 0 otherwise.
Smoothstep(edge0, edge1, value) ==
    LET x == IF edge1 - edge0 <= 0
                THEN (IF value > edge0 THEN 1000 ELSE 0)
                ELSE Clamp(((value - edge0) * 1000) \div (edge1 - edge0), 0, 1000)
    IN  (((x * x) \div 1000) * (3000 - 2 * x)) \div 1000

----------------------------------------------------------------------------
(* Configuration *)

\* defaultConfig (lines 74-100); of a ring, the fields the modelled code reads
DefaultConfig ==
    [sequenceHeightDesktop |-> 520,
     sequenceHeightMobile |-> 470,
     animation |-> [revealDuration |-> 800, revealY |-> 24, magneticScale |-> 1020],
     stars |-> [desktopCount |-> 860, mobileCount |-> 500, depth |-> 1600,
                baseSpeed |-> 280, warpBoost |-> 5100],
     orbit |-> [start |-> 620, full |-> 780, radiusDesktop |-> 260, radiusMobile |-> 220,
                rings |-> <<[radiusFactor |-> 450, speedMultiplier |-> 1400, tiltOffset |-> 0],
                            [radiusFactor |-> 720, speedMultiplier |-> 1000, tiltOffset |-> 80],
                            [radiusFactor |-> 1000, speedMultiplier |-> 700, tiltOffset |-> -60]>>]]

----------------------------------------------------------------------------
(* parseConfig.  A JSON value is [t, v]: t its type and v its content (for *)
(* an object, a function from its keys to JSON values).  The attribute     *)
(* data-motion-config is absent, empty, a text JSON.parse rejects, or the  *)
(* text of a JSON value.                                                   *)

Undefined == [t |-> "undefined", v |-> 0]
Null == [t |-> "null", v |-> 0]
Num(n) == [t |-> "number", v |-> n]
Arr(a) == [t |-> "array", v |-> a]
Obj(pairs) ==
    [t |-> "object",
     v |-> [k \in {q[1] : q \in pairs} |-> (CHOOSE q \in pairs : q[1] = k)[2]]]

AbsentAttr == [present |-> FALSE, empty |-> TRUE, valid |-> FALSE, json |-> Undefined]
EmptyAttr == [present |-> TRUE, empty |-> TRUE, valid |-> FALSE, json |-> Undefined]
BadJson == [present |-> TRUE, empty |-> FALSE, valid |-> FALSE, json |-> Undefined]
Json(value) == [present |-> TRUE, empty |-> FALSE, valid |-> TRUE, json |-> value]

\* JSON.parse(raw), line 174: a value, or a SyntaxError
JsonParse(raw) ==
    IF raw.valid THEN [threw |-> FALSE, value |-> raw.json]
                 ELSE [threw |-> TRUE, value |-> Undefined]

\* obj.key on an obj that is neither null nor undefined
Get(obj, key) ==
    IF obj.t = "object" /\ key \in DOMAIN obj.v THEN obj.v[key] ELSE Undefined
\* obj?.key
OptGet(obj, key) ==
    IF obj.t \in {"null", "undefined"} THEN Undefined ELSE Get(obj, key)
\* value ?? default
Nullish(value, default) ==
    IF value.t \in {"null", "undefined"} THEN default ELSE value.v

\* the object literal of lines 175-197; parsed.sequenceHeightDesktop throws a
\* TypeError when parsed is null
ConfigLiteral(parsed) ==
    LET d == DefaultConfig
        top(key) == Nullish(Get(parsed, key), d[key])
        sub(group, key) == Nullish(OptGet(Get(parsed, group), key), d[group][key])
    IN  IF parsed.t \in {"null", "undefined"}
           THEN [threw |-> TRUE, config |-> d]
           ELSE [threw |-> FALSE,
                 config |->
                   [sequenceHeightDesktop |-> top("sequenceHeightDesktop"),
                    sequenceHeightMobile |-> top("sequenceHeightMobile"),
                    animation |-> [revealDuration |-> sub("animation", "revealDuration"),
                                   revealY |-> sub("animation", "revealY"),
                                   magneticScale |-> sub("animation", "magneticScale")],
                    stars |-> [desktopCount |-> sub("stars", "desktopCount"),
                               mobileCount |-> sub("stars", "mobileCount"),
                               depth |-> sub("stars", "depth"),
                               baseSpeed |-> sub("stars", "baseSpeed"),
                               warpBoost |-> sub("stars", "warpBoost")],
                    orbit |-> [start |-> sub("orbit", "start"),
                               full |-> sub("orbit", "full"),
                               radiusDesktop |-> sub("orbit", "radiusDesktop"),
                               radiusMobile |-> sub("orbit", "radiusMobile"),
                               rings |-> sub("orbit", "rings")]]]

\* parseConfig with the try block left without its catch
ParseConfigNoCatch(raw) ==
    IF ~raw.present \/ raw.empty
       THEN [threw |-> FALSE, config |-> DefaultConfig]
       ELSE LET parsed == JsonParse(raw)
            IN  IF parsed.threw
                   THEN [threw |-> TRUE, config |-> DefaultConfig]
                   ELSE ConfigLiteral(parsed.value)

\* parseConfig (lines 169-201); threw: an exception leaves the function
ParseConfig(raw) ==
    IF ~raw.present \/ raw.empty
       THEN [threw |-> FALSE, config |-> DefaultConfig]
       ELSE LET parsed == JsonParse(raw)
                tried == IF parsed.threw
                            THEN [threw |-> TRUE, config |-> DefaultConfig]
                            ELSE ConfigLiteral(parsed.value)
            IN  IF tried.threw
                   THEN [threw |-> FALSE, config |-> DefaultConfig]
                   ELSE tried

\* stageThemes (lines 102-136)
StageThemes ==
    <<[base |-> <<2, 3, 6>>, hazeA |-> <<18, 28, 52>>, hazeB |-> <<8, 18, 40>>,
       palette |-> << <<145, 154, 176>>, <<172, 180, 198>>, <<214, 221, 236>>,
                      <<255, 255, 255>> >>],
      [base |-> <<2, 4, 8>>, hazeA |-> <<14, 30, 58>>, hazeB |-> <<10, 24, 44>>,
       palette |-> << <<151, 161, 184>>, <<180, 190, 210>>, <<218, 226, 240>>,
                      <<255, 255, 255>> >>],
      [base |-> <<3, 5, 10>>, hazeA |-> <<12, 34, 64>>, hazeB |-> <<10, 23, 48>>,
       palette |-> << <<158, 166, 188>>, <<188, 197, 218>>, <<224, 230, 245>>,
                      <<255, 255, 255>> >>]>>

\* lerpColor (lines 155-159), t in thousandths
LerpColor(a, b, t) ==
    [c \in 1..3 |-> RoundDiv(a[c] * 1000 + (b[c] - a[c]) * t, 1000)]

\* speedStages (line 144), hold speed per slide
SpeedStages == <<1, 6, 18, 42, 100>>
\* speedStageMaxBoost (line 145)
SpeedStageMaxBoost == 3200

----------------------------------------------------------------------------
(* draw: the quantities derived from scrollProgress (lines 1675-1792) *)

\* lines 1675-1676.  A slideWindow of 0.0001 maps every positive progress to 1.
SlideProgress(sp, cfg) ==
    LET slideWindow == cfg.orbit.start - 20
    IN  IF slideWindow <= 0
           THEN (IF sp > 0 THEN 1000 ELSE 0)
           ELSE Clamp((sp * 1000) \div slideWindow, 0, 1000)

\* lines 1684-1688, before the orbit speed reset
RawWarpStrength(sp, cfg) ==
    LET introWarpWindowStart == Max(cfg.orbit.start - 80, 400)
        introWarpWindowEnd == Max(cfg.orbit.start - 20, introWarpWindowStart + 10)
    IN  (Smoothstep(introWarpWindowStart, introWarpWindowEnd, sp)
           * (1000 - Smoothstep(cfg.orbit.start - 20, cfg.orbit.full, sp))) \div 1000

\* line 1689
OrbitReveal(sp, cfg) == Smoothstep(cfg.orbit.start, cfg.orbit.full, sp)

\* line 1759
OrbitSpeedReset(sp, cfg) == OrbitReveal(sp, cfg) > 100

\* lines 1687-1688 and 1760-1762
WarpStrength(sp, cfg) ==
    IF OrbitSpeedReset(sp, cfg) THEN 0 ELSE RawWarpStrength(sp, cfg)

\* lines 1707-1708
IntraSlide(slp, n) == (slp * n) % 1000
ActiveSlideIndex(slp, n) == (Clamp(slp, 0, 999) * n) \div 1000

\* lines 1713-1736 (thousandths of a speed unit)
ContinuousSpeed(slp, n) ==
    LET intraSlide == IntraSlide(slp, n)
        baseIdx == Clamp(ActiveSlideIndex(slp, n), 0, Len(SpeedStages) - 1)
        nextIdx == Min(baseIdx + 1, Len(SpeedStages) - 1)
        holdSpeed == SpeedStages[baseIdx + 1] * 1000
        nextHoldSpeed == SpeedStages[nextIdx + 1] * 1000
        transitionPeak == holdSpeed + ((nextHoldSpeed - holdSpeed) * 7) \div 10
    IN  IF intraSlide < 150
           THEN Lerp(transitionPeak, holdSpeed, Smoothstep(0, 150, intraSlide))
           ELSE IF intraSlide < 750
                   THEN holdSpeed
                   ELSE Lerp(holdSpeed, transitionPeak, Smoothstep(750, 960, intraSlide))

\* line 1738
StageSpeedNormalized(slp, n) == Clamp((ContinuousSpeed(slp, n) - 1000) \div 99, 0, 1000)

\* lines 1741-1744
TransitionBurst(slp) == Smoothstep(750 - 40, 750 + 60, slp)
BoostedStageSpeed(slp, n) ==
    Clamp(StageSpeedNormalized(slp, n) + (Smoothstep(750 + 50, 960, slp) * 35) \div 100,
          0, 1000)

\* lines 1748-1752
TransitionPulse(slp, n) ==
    LET intraSlide == IntraSlide(slp, n)
    IN  IF intraSlide < 150
           THEN ((1000 - Smoothstep(0, 150, intraSlide)) * 5) \div 10
           ELSE IF intraSlide > 750 THEN Smoothstep(750, 1000, intraSlide) ELSE 0

\* lines 1754-1757
SequenceBoost(sp, cfg, n) ==
    LET slp == SlideProgress(sp, cfg)
        a == Smoothstep(60, 980, slp)
        b == 1000 - Smoothstep(cfg.orbit.start - 30, cfg.orbit.start + 60, sp)
        c == 100 + (TransitionPulse(slp, n) * 9) \div 10
    IN  ((((a * b) \div 1000) * c) \div 1000)

\* line 1783
OrbitDampen(sp, cfg) == 1000 - Smoothstep(cfg.orbit.start - 20, cfg.orbit.start + 40, sp)

\* The arguments draw hands to drawStarField (lines 1784-1792)
WarpArgument(sp, cfg) ==
    WarpStrength(sp, cfg) + (TransitionBurst(SlideProgress(sp, cfg)) * 7) \div 10
StageSpeedArgument(sp, cfg, n) ==
    IF OrbitSpeedReset(sp, cfg) THEN 0 ELSE BoostedStageSpeed(SlideProgress(sp, cfg), n)

\* lines 1677-1680: the stage themes to blend (indices from 0) and the mix
StageValue(slp) == slp * Max(Len(StageThemes) - 1, 1)
StageLower(slp) == StageValue(slp) \div 1000
StageUpper(slp) == Min(Len(StageThemes) - 1, StageLower(slp) + 1)
StageMix(slp) == StageValue(slp) - StageLower(slp) * 1000

\* What one run of draw computes from scrollProgress and hands to the
\* drawing routines (lines 1675-1792)
Drawn(sp, cfg, n) ==
    [orbitReveal |-> OrbitReveal(sp, cfg),
     slideProgress |-> SlideProgress(sp, cfg),
     speedIndex |-> ActiveSlideIndex(SlideProgress(sp, cfg), n),
     speedT |-> IntraSlide(SlideProgress(sp, cfg), n),
     stageLower |-> StageLower(SlideProgress(sp, cfg)),
     stageUpper |-> StageUpper(SlideProgress(sp, cfg)),
     stageMix |-> StageMix(SlideProgress(sp, cfg)),
     \* drawAtmosphere, lines 896-898
     base |-> LerpColor(StageThemes[StageLower(SlideProgress(sp, cfg)) + 1].base,
                        StageThemes[StageUpper(SlideProgress(sp, cfg)) + 1].base,
                        StageMix(SlideProgress(sp, cfg))),
     hazeA |-> LerpColor(StageThemes[StageLower(SlideProgress(sp, cfg)) + 1].hazeA,
                         StageThemes[StageUpper(SlideProgress(sp, cfg)) + 1].hazeA,
                         StageMix(SlideProgress(sp, cfg))),
     hazeB |-> LerpColor(StageThemes[StageLower(SlideProgress(sp, cfg)) + 1].hazeB,
                         StageThemes[StageUpper(SlideProgress(sp, cfg)) + 1].hazeB,
                         StageMix(SlideProgress(sp, cfg))),
     \* the palette argument of drawStarField, line 1786
     palette |-> StageThemes[StageUpper(SlideProgress(sp, cfg)) + 1].palette,
     warpStrength |-> WarpArgument(sp, cfg),
     stageSpeed |-> StageSpeedArgument(sp, cfg, n)]

\* line 1648: clamp((now - lastTime) / 16.6667, 0.35, 2.4)
Delta(now, last) == Clamp(((now - last) * 10000000) \div 166667, 350, 2400)

----------------------------------------------------------------------------
(* Star field *)

\* Math.random() results (thousandths) consumed for one star, in the order
\* x, y, size, z.  createStars uses all four, resetStar the first three.
StarDraws == {<<500, 500, 0, 0>>, <<0, 999, 999, 999>>}

\* createStars (lines 205-217): one element
CreateStar(d, depth, sprd) ==
    [x |-> ((2 * d[1] - 1000) * sprd) \div 1000,
     y |-> ((2 * d[2] - 1000) * sprd * 68) \div 100000,
     z |-> d[4] * depth + 1000,
     size |-> (d[3] * 12) \div 10 + 450,
     prevX |-> 0, prevY |-> 0,
     initialized |-> FALSE]

\* resetStar with the line `star.initialized = false` missing
ResetStarKeepInitialized(star, d, depth, sprd) ==
    [star EXCEPT !.x = ((2 * d[1] - 1000) * sprd) \div 1000,
                 !.y = ((2 * d[2] - 1000) * sprd * 68) \div 100000,
                 !.z = depth * 1000,
                 !.size = (d[3] * 12) \div 10 + 450]

\* resetStar (lines 219-228): mutates the star in place
ResetStar(star, d, depth, sprd) ==
    [star EXCEPT !.x = ((2 * d[1] - 1000) * sprd) \div 1000,
                 !.y = ((2 * d[2] - 1000) * sprd * 68) \div 100000,
                 !.z = depth * 1000,
                 !.size = (d[3] * 12) \div 10 + 450,
                 !.initialized = FALSE]

\* rebuildStars line 875 without the lower limit
FinalCountNoFloor(configuredCount, lowPower) ==
    RoundDiv(configuredCount * (IF lowPower THEN 62 ELSE 100), 100)

\* rebuildStars (lines 873-875): finalCount
FinalCount(configuredCount, lowPower) ==
    Max(220, RoundDiv(configuredCount * (IF lowPower THEN 62 ELSE 100), 100))

\* rebuildStars line 876
Spread(w, h) == (Max(w, h) * 155) \div 100

\* drawStarField lines 1445-1451: speed, thousandths
StarSpeed(cfg, se, pe, warpStrength, sequenceBoost, stageSpeedNormalized, orbitDampen) ==
    LET sum == (se * 220 + pe * 80 + sequenceBoost * 1120
                  + stageSpeedNormalized * SpeedStageMaxBoost
                  + warpStrength * cfg.stars.warpBoost) \div 1000
    IN  cfg.stars.baseSpeed + (sum * orbitDampen) \div 1000

\* line 1455: speed * delta * (8 + star.size * 4), thousandths
Advance(speed, delta, size) == (((speed * delta) \div 1000) * (8000 + 4 * size)) \div 1000

\* lines 1461-1465: screen position of a star, px
Projection(w, h, z) == (Max(w, h) * 94000) \div z   \* focal / z, hundredths
DepthMix(z, depth) == Clamp(1000 - z \div depth, 0, 1000)
Parallax(z, depth) == 1000 + (DepthMix(z, depth) * 18) \div 10
ScreenX(star, w, h, depth, mx) ==
    w \div 2 + ((star.x + (mx * 28 * Parallax(star.z, depth)) \div 1000000)
                  * Projection(w, h, star.z)) \div 100
ScreenY(star, w, h, depth, my) ==
    h \div 2 + ((star.y + (my * 24 * Parallax(star.z, depth)) \div 1000000)
                  * Projection(w, h, star.z)) \div 100

\* line 1467
OffScreen(sx, sy, w, h) == sx < -120 \/ sx > w + 120 \/ sy < -120 \/ sy > h + 120

\* line 1457 reading `star.z <= 0`
PassedCameraAtZero(z) == z <= 0

\* line 1457: the star has passed the camera
PassedCamera(z) == z <= 1000

\* Log entry of a star that no frame has visited yet; life counts the
\* recycles and rebuilds of the slot.
FreshLog(life) ==
    [life |-> life, advancedZ |-> 0, projectedZ |-> 0, sx |-> 0, sy |-> 0,
     visited |-> FALSE, recycledOffScreen |-> FALSE, drawn |-> FALSE,
     streak |-> FALSE, streakFromLife |-> -1, streakFromDraw |-> -1,
     prevLife |-> -1, prevDraw |-> -1]

\* drawStarField (lines 1453-1511): the loop body for one star.  d holds the
\* random numbers of a recycle of this star in this frame, drawNo numbers
\* the run of draw.  Returns the star and its log entry.
StarStep(star, log, d, cfg, w, h, sprd, mx, my, speed, delta, warpStrength, reduce, drawNo) ==
    LET depth == cfg.stars.depth
        z1 == star.z - Advance(speed, delta, star.size)
        moved == [star EXCEPT !.z = z1]
        passed == PassedCamera(z1)
        a == IF passed THEN ResetStar(moved, d, depth, sprd) ELSE moved
        lifeA == log.life + (IF passed THEN 1 ELSE 0)
        sx == ScreenX(a, w, h, depth, mx)
        sy == ScreenY(a, w, h, depth, my)
        seen == [log EXCEPT !.advancedZ = z1, !.projectedZ = a.z,
                            !.sx = sx, !.sy = sy, !.visited = TRUE]
    IN  IF OffScreen(sx, sy, w, h)
           THEN [star |-> ResetStar(a, d, depth, sprd),
                 log |-> [seen EXCEPT !.life = lifeA + 1,
                                      !.recycledOffScreen = TRUE,
                                      !.drawn = FALSE, !.streak = FALSE]]
           ELSE [star |-> [a EXCEPT !.prevX = sx, !.prevY = sy, !.initialized = TRUE],
                 log |-> [seen EXCEPT !.life = lifeA,
                                      !.recycledOffScreen = FALSE,
                                      !.drawn = TRUE,
                                      !.streak = (warpStrength > 70 /\ a.initialized /\ ~reduce),
                                      !.streakFromLife = log.prevLife,
                                      !.streakFromDraw = log.prevDraw,
                                      !.prevLife = lifeA,
                                      !.prevDraw = drawNo]]

----------------------------------------------------------------------------
(* Title slides *)

\* LINE_DX, LINE_DY (lines 759-761): cos(160 deg), -sin(-200 deg)
LINE_DX == -940
LINE_DY == -342

\* getLineDist (lines 764-767), tenths of a pixel
EntryDist(w) == Max((w * 42) \div 10, 2000)
ExitDist(w) == Max((w * 32) \div 10, 2200)

\* lines 777-782, tenths of a pixel
EntryTx(w) == ((0 - LINE_DX) * EntryDist(w)) \div 1000
EntryTy(w) == ((0 - LINE_DY) * EntryDist(w)) \div 1000
ExitTx(w) == (LINE_DX * ExitDist(w)) \div 1000
ExitTy(w) == (LINE_DY * ExitDist(w)) \div 1000

\* line 770 with the upper limit 1 in place of 0.999
ClampProgressToOne(progress) == Clamp(progress, 0, 1000)

\* line 770
ClampProgress(progress) == Clamp(progress, 0, 999)

\* The three phases of an active slide (lines 797-834).  Each yields the
\* locals opacity, tx, ty, scale.
\* hold (lines 799-803 and 825-830)
HoldPhase == [opacity |-> 1000, tx |-> 0, ty |-> 0, scale |-> 1000]

\* fly-in (lines 816-824)
FlyInPhase(t, w) ==
    LET at == (t * 1000) \div 150
        eased == (at * (2000 - at)) \div 1000
    IN  [opacity |-> Clamp((eased * 14) \div 10, 0, 1000),
         tx |-> Lerp(EntryTx(w), 0, eased),
         ty |-> Lerp(EntryTy(w), 0, eased),
         scale |-> Lerp(250, 1000, eased)]

\* lines 826-833 with the entry offset in place of the exit offset
FlyOutPhaseTowardEntry(t, w) ==
    LET ft == ((t - 750) * 1000) \div 250
        eased == (((ft * ft) \div 1000) * (3000 - 2 * ft)) \div 1000
    IN  [opacity |-> Clamp(1000 - (ft * 25) \div 10, 0, 1000),
         tx |-> (EntryTx(w) * eased) \div 1000,
         ty |-> (EntryTy(w) * eased) \div 1000,
         scale |-> Lerp(1000, 3500, eased)]

\* fly-out (lines 805-811 and 826-833)
FlyOutPhase(t, w) ==
    LET ft == ((t - 750) * 1000) \div 250
        eased == (((ft * ft) \div 1000) * (3000 - 2 * ft)) \div 1000
    IN  [opacity |-> Clamp(1000 - (ft * 25) \div 10, 0, 1000),
         tx |-> (ExitTx(w) * eased) \div 1000,
         ty |-> (ExitTy(w) * eased) \div 1000,
         scale |-> Lerp(1000, 3500, eased)]

\* lines 797-812 replaced by the branch of the other slides: the hero flies in
ActivePhaseHeroFliesIn(index, t, n, w) ==
    IF t < 150 THEN FlyInPhase(t, w)
    ELSE IF t < 750 \/ index = n - 1 THEN HoldPhase
    ELSE FlyOutPhase(t, w)

\* lines 788-834: phase of the active slide; index counts from 0
ActivePhase(index, t, n, w) ==
    IF index = 0
       THEN (IF t < 750 THEN HoldPhase ELSE FlyOutPhase(t, w))
       ELSE IF t < 150 THEN FlyInPhase(t, w)
            ELSE IF t < 750 \/ index = n - 1 THEN HoldPhase
            ELSE FlyOutPhase(t, w)

\* lines 836-843: class and inline style of the active slide.  offX/offY keep
\* the locals tx/ty, the translate adds the scale compensation.
ActiveStyle(ph, w) ==
    LET scaleExcess == Max(0, ph.scale - 1000)
        scaleCompX == 0 - (scaleExcess * w * 18) \div 10000
        scaleCompY == 0 - (scaleExcess * 80) \div 1000
    IN  [active |-> TRUE, opacity |-> ph.opacity,
         translateX |-> ph.tx + scaleCompX, translateY |-> ph.ty + scaleCompY,
         scale |-> ph.scale, offX |-> ph.tx, offY |-> ph.ty]

\* lines 844-854: a slide that is not the active one
ParkedStyle(index, activeIndex, w) ==
    IF index < activeIndex
       THEN [active |-> FALSE, opacity |-> 0,
             translateX |-> ExitTx(w), translateY |-> ExitTy(w),
             scale |-> 3500, offX |-> ExitTx(w), offY |-> ExitTy(w)]
       ELSE [active |-> FALSE, opacity |-> 0,
             translateX |-> EntryTx(w), translateY |-> EntryTy(w),
             scale |-> 250, offX |-> EntryTx(w), offY |-> EntryTy(w)]

\* updateSlidesFlyThrough (lines 769-856).  Slide k of the result is
\* slides[k - 1].
UpdateSlidesFlyThrough(progress, n, w) ==
    LET scaled == ClampProgress(progress) * n
        activeIndex == scaled \div 1000
        t == scaled - activeIndex * 1000
    IN  [k \in 1..n |->
           IF k - 1 = activeIndex
              THEN ActiveStyle(ActivePhase(k - 1, t, n, w), w)
              ELSE ParkedStyle(k - 1, activeIndex, w)]

----------------------------------------------------------------------------
(* Scroll tracker, pointer energy, orbit time *)

\* draw line 1653 without Math.max(0, ...)
DecayScrollNoFloor(e) == (e * 94) \div 100 - 2

\* draw, lines 1653-1654
DecayScroll(e) == Max(0, (e * 94) \div 100 - 2)
DecayPointer(e) == Max(0, (e * 92) \div 100 - 2)

\* draw, lines 1651-1652: mouse += (target - mouse) * 0.06
EaseMouse(m, target) == m + ((target - m) * 6) \div 100

\* onUpdate line 1934 without the outer clamp
BumpScrollUnclamped(e, velocity) == e + Clamp(Abs(velocity) \div 3, 0, 1000)

\* onUpdate, line 1934: velocity in px/s
BumpScroll(e, velocity) == Clamp(e + Clamp(Abs(velocity) \div 3, 0, 1000), 0, 2000)

\* pointerMove, line 1813
BumpPointer(e) == Clamp(e + 35, 0, 1000)

\* pointerMove, lines 1811-1812: clamp((client / size - 0.5) * 2, -1, 1)
PointerTarget(client, size) == Clamp((2000 * client) \div size - 1000, -1000, 1000)

\* getOrbitTime without the paused branch
GetOrbitTimeIgnoringPause(nowSeconds) == nowSeconds - pauseTimeOffset

\* getOrbitTime (lines 680-683)
GetOrbitTime(nowSeconds) ==
    IF orbitPaused
       THEN nowSeconds - pauseTimeOffset - (nowSeconds - pauseStartTime)
       ELSE nowSeconds - pauseTimeOffset

----------------------------------------------------------------------------
(* Drag spin and tilt.  Angles and angular velocities are integers in      *)
(* ten-thousandths of a radian (10000 stands for 1.0 rad); products with  *)
(* a factor below 1 round toward zero.                                     *)

Scale(a, num, den) == IF a >= 0 THEN (a * num) \div den ELSE 0 - (((0 - a) * num) \div den)

\* touchMove / mouseMoveHandler: spinDelta = dx * 0.004, tiltDelta = dy * -0.003
SpinDelta(dx) == dx * 40
TiltDelta(dy) == dy * (0 - 30)

\* touchMove / mouseMoveHandler without the clamp of the tilt
AddTiltUnclamped(tilt, tiltDelta) == tilt + tiltDelta

\* touchMove line 1846, mouseMoveHandler line 1878
AddTilt(tilt, tiltDelta) == Clamp(tilt + tiltDelta, -12000, 12000)

\* draw, lines 1657 and 1660: velocity *= 0.95
DecayVelocity(v) == Scale(v, 95, 100)

\* draw, lines 1658 and 1661: if (Math.abs(v) > 0.0001) offset += v
Momentum(offset, v) == IF Abs(v) > 1 THEN offset + v ELSE offset

SpringBackOff(tilt, touchDragging, mouseDragging) == tilt

\* draw, lines 1663-1666
SpringBack(tilt, touchDragging, mouseDragging) ==
    IF ~touchDragging /\ ~mouseDragging
       THEN LET t == Scale(tilt, 97, 100)
            IN  IF Abs(t) < 10 THEN 0 ELSE t
       ELSE tilt

----------------------------------------------------------------------------
(* Ring assignment.  A data-ring attribute is [present, text] with text a  *)
(* sequence of one-character strings; angles are ten-thousandths of a      *)
(* radian.                                                                 *)

Digits == {"0", "1", "2", "3", "4", "5", "6", "7", "8", "9"}
DigitValue(c) ==
    CASE c = "0" -> 0 [] c = "1" -> 1 [] c = "2" -> 2 [] c = "3" -> 3 [] c = "4" -> 4
      [] c = "5" -> 5 [] c = "6" -> 6 [] c = "7" -> 7 [] c = "8" -> 8 [] c = "9" -> 9

RECURSIVE DigitPrefix(_, _, _)
\* the value of the leading digits of text from position i on, acc so far
DigitPrefix(text, i, acc) ==
    IF i > Len(text) \/ text[i] \notin Digits
       THEN acc
       ELSE DigitPrefix(text, i + 1, 10 * acc + DigitValue(text[i]))

\* parseInt(text, 10): an optional sign and the leading digits; NaN when
\* there is no digit
ParseInt(text) ==
    LET signed == Len(text) > 0 /\ text[1] \in {"-", "+"}
        first == IF signed THEN 2 ELSE 1
        magnitude == DigitPrefix(text, first, 0)
    IN  IF first > Len(text) \/ text[first] \notin Digits
           THEN [nan |-> TRUE, value |-> 0]
           ELSE [nan |-> FALSE,
                 value |-> IF signed /\ text[1] = "-" THEN 0 - magnitude ELSE magnitude]

\* assignNodesToRings line 661: ringAttr ? parseInt(ringAttr, 10) - 1 : 1
RingOfAttr(attr) ==
    IF attr.present /\ attr.text # <<>>
       THEN [ParseInt(attr.text) EXCEPT !.value = @ - 1]
       ELSE [nan |-> FALSE, value |-> 1]

\* ringBuckets[ring] is an array (lines 665-667)
HasBucket(ring, rings) == ~ring.nan /\ ring.value >= 0 /\ ring.value < Len(rings)

\* line 674: (posInRing / Math.max(bucket.length, 1)) * Math.PI * 2 - Math.PI / 2
BaseAngle(posInRing, bucketLength) ==
    (posInRing * 62832) \div Max(bucketLength, 1) - 15708

\* assignNodesToRings (lines 657-677) on the data-ring attributes of the
\* orbit nodes; oldAngles is orbitAngles before the call.  threw: the push
\* of line 667 was called on undefined.
AssignNodesToRings(attrs, rings, oldAngles) ==
    LET assigned == [i \in DOMAIN attrs |-> RingOfAttr(attrs[i])]
        bucket(r) == {i \in DOMAIN attrs : assigned[i].value = r}
        posInRing(i) == Cardinality({j \in bucket(assigned[i].value) : j < i})
        failed == \E i \in DOMAIN attrs : ~HasBucket(assigned[i], rings)
    IN  [threw |-> failed,
         nodeRingAssignments |-> assigned,
         orbitAngles |->
            IF failed
               THEN oldAngles
               ELSE [i \in DOMAIN attrs |->
                       BaseAngle(posInRing(i), Cardinality(bucket(assigned[i].value)))]]

----------------------------------------------------------------------------
(* Spoke pulses.  progress is in millionths (1000000 stands for 1.0),      *)
(* speed in thousandths.                                                   *)

\* Math.random of initSpokePulses for one node: the speeds of its pulses
\* (count = 2 + floor(random * 2), speed = 0.25 + random * 0.12)
PulseDraws == {<<250, 370>>, <<370, 250, 310>>}

\* initSpokePulses (lines 363-377); baseOpacity is not carried
InitSpokePulses(n, tape) ==
    [i \in 1..n |->
        [j \in 1..Len(tape[i]) |->
            [progress |-> ((j - 1) * 1000000) \div Len(tape[i]),
             speed |-> tape[i][j]]]]

\* updateSpokePulses, lines 1024-1025
AdvancePulse(pulse, delta) ==
    LET p == pulse.progress + (pulse.speed * delta * 16) \div 1000
    IN  [pulse EXCEPT !.progress = IF p >= 1000000 THEN p - 1000000 ELSE p]

\* updateSpokePulses (lines 982-1080): the progress of every pulse; the
\* dot is drawn at center + (node - center) * progress (lines 1027-1029)
UpdateSpokePulses(pulses, delta, orbitReveal) ==
    IF orbitReveal <= 300
       THEN pulses
       ELSE [i \in DOMAIN pulses |->
               [j \in DOMAIN pulses[i] |-> AdvancePulse(pulses[i][j], delta)]]

----------------------------------------------------------------------------
(* Initial state: initHeroSequence has run up to, not including, the first *)
(* draw or frame request (lines 1951-1955), which is the step Start.       *)

TickMs == 17     \* one display refresh interval, ms

\* An orbit node without data-ring, and with data-ring set to text
NoAttr == [present |-> FALSE, text |-> <<>>]
Attr(text) == [present |-> TRUE, text |-> text]

\* History records before the first draw and the first drag or tap event
NothingDrawn == Drawn(0, DefaultConfig, 1)
NoInput == [kind |-> "none", no |-> 0]
NoGesture == [down |-> FALSE, startX |-> 0, taken |-> FALSE, x |-> 0, added |-> 0]

\* let isMobile = false (line 313): its value until resize() runs
IsMobileDeclared == FALSE

\* line 518: CORE_PARTICLE_COUNT = isMobile ? 180 : 400
CoreParticleCount(mobile) == IF mobile THEN 180 ELSE 400

\* line 1943: generateHexGlobe(isMobile ? 2 : 3)
Subdivisions(mobile) == IF mobile THEN 2 ELSE 3

ConfiguredCount(cfg, mobile) ==
    IF mobile THEN cfg.stars.mobileCount ELSE cfg.stars.desktopCount

InitDevice(rawConfigs, reduces, lowPowers, touchDevices, slideCounts, nodeCounts, viewports, window, pointerEnergies, pulseDraws, ringAttrInputs) ==
    \* parseConfig(wrapper) of line 2014
    /\ rawConfig \in rawConfigs
    /\ config = ParseConfig(rawConfig).config
    /\ parseThrew = ParseConfig(rawConfig).threw
    /\ reduceMotion \in reduces
    /\ lowPowerDevice \in lowPowers
    \* line 1894
    /\ isTouchDevice \in touchDevices
    /\ numSlides \in slideCounts
    \* line 518, then generateHexGlobe and initEnergyCoreParticles of lines
    \* 1943 and 1947, all before the resize() of line 1948 sets isMobile
    /\ coreParticlesLength = CoreParticleCount(IsMobileDeclared)
    /\ globeSubdivisions = Subdivisions(IsMobileDeclared)
    /\ numNodes \in nodeCounts
    \* assignNodesToRings() of line 1945
    /\ ringAttrs \in [1..numNodes -> ringAttrInputs]
    /\ LET assigned == AssignNodesToRings(ringAttrs, config.orbit.rings, <<>>)
       IN  /\ nodeRingAssignments = assigned.nodeRingAssignments
           /\ orbitAngles = assigned.orbitAngles
           /\ threw = assigned.threw
    /\ clock = 0
    /\ lastTime = 0
    /\ started = FALSE
    /\ pendingFrames = 0
    /\ scrollProgress = 0
    /\ scrollEnergy = 0
    /\ pointerEnergy \in pointerEnergies
    /\ targetMouseX = 0 /\ targetMouseY = 0
    /\ mouseX = 0 /\ mouseY = 0
    \* resize() of line 1948
    /\ \E vp \in viewports :
         /\ width = vp[1]
         /\ height = vp[2]
         /\ isMobile = (vp[1] < 900)
         /\ spread = Spread(vp[1], vp[2])
    /\ starsLength = FinalCount(ConfiguredCount(config, isMobile), lowPowerDevice)
    /\ \E tape \in [1..window -> StarDraws] :
         stars = [i \in 1..window |-> CreateStar(tape[i], config.stars.depth, spread)]
    /\ starLog = [i \in 1..window |-> FreshLog(0)]
    \* updateSlidesFlyThrough(0) of line 1950
    /\ slideDom = UpdateSlidesFlyThrough(0, numSlides, width)
    /\ slideArg = 0
    /\ orbitPaused = FALSE
    /\ pauseTimeOffset = 0
    /\ pauseStartTime = 0
    /\ reported = 0
    /\ inputs = 0
    /\ frames = 0
    /\ draws = 0
    /\ resizes = 0
    /\ warpPassed = 0
    /\ hovered = {}
    /\ pausedTotal = 0
    /\ touchSpinOffset = 0 /\ touchSpinVelocity = 0
    /\ touchTiltOffset = 0 /\ touchTiltVelocity = 0
    /\ isTouchDragging = FALSE /\ touchStartX = 0 /\ touchStartY = 0
    /\ isMouseDragging = FALSE /\ mouseStartX = 0 /\ mouseStartY = 0
    \* initSpokePulses() of line 1946
    /\ \E tape \in [1..numNodes -> pulseDraws] :
         spokePulses = InitSpokePulses(numNodes, tape)
    /\ expanded = {}
    /\ drawn = NothingDrawn
    /\ lastInput = NoInput
    /\ mouseHeld = FALSE
    /\ gesture = NoGesture

\* Construction on a device that reports touch support
InitWith(rawConfigs, reduces, lowPowers, slideCounts, nodeCounts, viewports, window, pointerEnergies, pulseDraws, ringAttrInputs) ==
    InitDevice(rawConfigs, reduces, lowPowers, {TRUE}, slideCounts, nodeCounts,
               viewports, window, pointerEnergies, pulseDraws, ringAttrInputs)

----------------------------------------------------------------------------
(* Operations *)

RequestFrameAlways(pending, reduce) == pending + 1

\* draw, lines 1805-1807: if (!reduceMotion) requestAnimationFrame(draw)
RequestFrame(pending, reduce) == IF reduce THEN pending ELSE pending + 1

\* draw (lines 1646-1807) called with timestamp now, on scrollProgress sp
\* and scrollEnergy se; pending is the number of frame requests left after
\* this call was taken off the queue; tape holds the random numbers of the
\* recycles.  The canvas, SVG and orbit-menu output is not modelled.
Draw(now, sp, se, pending, tape) ==
    LET delta == Delta(now, lastTime)
        mx == EaseMouse(mouseX, targetMouseX)
        my == EaseMouse(mouseY, targetMouseY)
        se1 == DecayScroll(se)
        pe1 == DecayPointer(pointerEnergy)
        slp == SlideProgress(sp, config)
        warp == WarpArgument(sp, config)
        speed == StarSpeed(config, se1, pe1, warp, SequenceBoost(sp, config, numSlides),
                           StageSpeedArgument(sp, config, numSlides),
                           OrbitDampen(sp, config))
        step == [i \in DOMAIN stars |->
                   StarStep(stars[i], starLog[i], tape[i], config, width, height, spread,
                            mx, my, speed, delta, warp, reduceMotion, draws + 1)]
        spinV == DecayVelocity(touchSpinVelocity)
        tiltV == DecayVelocity(touchTiltVelocity)
        reveal == OrbitReveal(sp, config)
    IN  /\ lastTime' = now
        /\ touchSpinVelocity' = spinV
        /\ touchSpinOffset' = Momentum(touchSpinOffset, spinV)
        /\ touchTiltVelocity' = tiltV
        /\ touchTiltOffset' = SpringBack(Momentum(touchTiltOffset, tiltV),
                                         isTouchDragging, isMouseDragging)
        /\ spokePulses' = UpdateSpokePulses(spokePulses, delta, reveal)
        /\ drawn' = Drawn(sp, config, numSlides)
        /\ mouseX' = mx
        /\ mouseY' = my
        /\ scrollEnergy' = se1
        /\ pointerEnergy' = pe1
        /\ stars' = [i \in DOMAIN stars |-> step[i].star]
        /\ starLog' = [i \in DOMAIN stars |-> step[i].log]
        /\ starsLength' = starsLength
        /\ warpPassed' = warp
        /\ draws' = draws + 1
        /\ slideDom' = UpdateSlidesFlyThrough(slp, numSlides, width)
        /\ slideArg' = slp
        /\ pendingFrames' = RequestFrame(pending, reduceMotion)

\* End of the init sequence (lines 1951-1955); an exception in
\* assignNodesToRings (line 1945) ends initHeroSequence before these lines
Start ==
    /\ ~started
    /\ ~threw
    /\ started' = TRUE
    /\ IF reduceMotion
          THEN \E tape \in [DOMAIN stars -> StarDraws] :
                  Draw(clock, scrollProgress, scrollEnergy, pendingFrames, tape)
          ELSE /\ pendingFrames' = pendingFrames + 1
               /\ UNCHANGED <<lastTime, mouseX, mouseY, scrollEnergy, pointerEnergy,
                              stars, starLog, starsLength, warpPassed, draws,
                              slideDom, slideArg, motionVars, spokePulses, drawn>>
    /\ UNCHANGED <<envVars, clock, scrollProgress, targetMouseX, targetMouseY,
                   width, height, isMobile, spread, orbitVars,
                   gestureVars, expanded, lastInput, mouseHeld, gesture,
                   reported, inputs, frames, resizes, hovered, pausedTotal>>

\* The browser runs a requested animation frame: draw(now).  limit bounds the
\* exploration, here and in the operations below.
Frame(limit) ==
    /\ started
    /\ pendingFrames > 0
    /\ frames < limit
    /\ frames' = frames + 1
    /\ \E tape \in [DOMAIN stars -> StarDraws] :
          Draw(clock, scrollProgress, scrollEnergy, pendingFrames - 1, tape)
    /\ UNCHANGED <<envVars, clock, started, scrollProgress, targetMouseX, targetMouseY,
                   width, height, isMobile, spread, orbitVars,
                   gestureVars, expanded, lastInput, mouseHeld, gesture,
                   reported, inputs, resizes, hovered, pausedTotal>>

\* ScrollTrigger onUpdate (lines 1932-1939)
OnUpdate(progress, velocity, limit) ==
    /\ started
    /\ inputs < limit
    /\ inputs' = inputs + 1
    /\ scrollProgress' = progress
    /\ reported' = progress
    /\ IF reduceMotion
          THEN \E tape \in [DOMAIN stars -> StarDraws] :
                  Draw(clock, progress, BumpScroll(scrollEnergy, velocity),
                       pendingFrames, tape)
          ELSE /\ scrollEnergy' = BumpScroll(scrollEnergy, velocity)
               /\ UNCHANGED <<lastTime, mouseX, mouseY, pointerEnergy,
                              stars, starLog, starsLength, warpPassed, draws,
                              slideDom, slideArg, pendingFrames,
                              motionVars, spokePulses, drawn>>
    /\ UNCHANGED <<envVars, clock, started, targetMouseX, targetMouseY,
                   width, height, isMobile, spread, orbitVars,
                   gestureVars, expanded, lastInput, mouseHeld, gesture,
                   frames, resizes, hovered, pausedTotal>>

\* pointerMove (lines 1810-1814)
PointerMove(clientX, clientY, limit) ==
    /\ started
    /\ inputs < limit
    /\ inputs' = inputs + 1
    /\ targetMouseX' = PointerTarget(clientX, width)
    /\ targetMouseY' = PointerTarget(clientY, height)
    /\ pointerEnergy' = BumpPointer(pointerEnergy)
    /\ UNCHANGED <<envVars, clockVars, scrollProgress, scrollEnergy, mouseX, mouseY,
                   starVars, slideDom, orbitVars,
                   motionVars, gestureVars, spokePulses, expanded, drawn, lastInput, mouseHeld, gesture,
                   reported, frames, draws, resizes, warpPassed, starLog, slideArg,
                   hovered, pausedTotal>>

\* resize (lines 880-893) with rebuildStars (lines 872-878); the canvas
\* size and the wrapper height are not modelled.
Resize(innerWidth, innerHeight, limit) ==
    /\ started
    /\ inputs < limit
    /\ inputs' = inputs + 1
    /\ resizes' = resizes + 1
    /\ width' = Max(innerWidth, 1)
    /\ height' = Max(innerHeight, 1)
    /\ isMobile' = (width' < 900)
    /\ spread' = Spread(width', height')
    /\ starsLength' = FinalCount(ConfiguredCount(config, isMobile'), lowPowerDevice)
    /\ \E tape \in [DOMAIN stars -> StarDraws] :
          stars' = [i \in DOMAIN stars |->
                      CreateStar(tape[i], config.stars.depth, spread')]
    /\ starLog' = [i \in DOMAIN stars |-> FreshLog(starLog[i].life + 1)]
    /\ UNCHANGED <<envVars, clockVars, energyVars, slideDom, orbitVars,
                   motionVars, gestureVars, spokePulses, expanded, drawn, lastInput, mouseHeld, gesture,
                   reported, frames, draws, warpPassed, slideArg, hovered, pausedTotal>>

\* pauseOrbit (lines 1973-1977) as the mouseenter listener of node k
MouseEnter(k) ==
    /\ started
    /\ k \notin hovered
    /\ hovered' = hovered \cup {k}
    /\ IF orbitPaused
          THEN UNCHANGED orbitVars
          ELSE /\ orbitPaused' = TRUE
               /\ pauseStartTime' = clock
               /\ UNCHANGED pauseTimeOffset
    /\ UNCHANGED <<envVars, clockVars, energyVars, starVars, slideDom,
                   motionVars, gestureVars, spokePulses, expanded, drawn, lastInput, mouseHeld, gesture,
                   reported, inputs, frames, draws, resizes, warpPassed, starLog,
                   slideArg, pausedTotal>>

\* resumeOrbit (lines 1978-1982) as the mouseleave listener of node k
MouseLeave(k) ==
    /\ started
    /\ k \in hovered
    /\ hovered' = hovered \ {k}
    /\ IF ~orbitPaused
          THEN UNCHANGED orbitVars
          ELSE /\ pauseTimeOffset' = pauseTimeOffset + (clock - pauseStartTime)
               /\ orbitPaused' = FALSE
               /\ UNCHANGED pauseStartTime
    /\ UNCHANGED <<envVars, clockVars, energyVars, starVars, slideDom,
                   motionVars, gestureVars, spokePulses, expanded, drawn, lastInput, mouseHeld, gesture,
                   reported, inputs, frames, draws, resizes, warpPassed, starLog,
                   slideArg, pausedTotal>>

\* Time passes
Tick(limit) ==
    /\ clock < limit * TickMs
    /\ clock' = clock + TickMs
    /\ pausedTotal' = IF orbitPaused THEN pausedTotal + TickMs ELSE pausedTotal
    /\ UNCHANGED <<envVars, lastTime, started, pendingFrames, energyVars, starVars,
                   slideDom, orbitVars,
                   motionVars, gestureVars, spokePulses, expanded, drawn, lastInput, mouseHeld, gesture,
                   reported, inputs, frames, draws, resizes, warpPassed, starLog,
                   slideArg, hovered>>

\* The guard of touchStart, touchMove and mouseDown with the test left out
OrbitPhaseAlways(sp, cfg) == TRUE

\* touchStart line 1823, touchMove line 1831, mouseDown line 1859: the
\* handler goes on only if not (scrollProgress < config.orbit.start)
OrbitPhase(sp, cfg) == ~(sp < cfg.orbit.start)

\* What the handlers below leave alone
DragFrame ==
    UNCHANGED <<envVars, clockVars, energyVars, starVars, slideDom, orbitVars,
                spokePulses, expanded,
                reported, frames, draws, resizes, warpPassed, starLog, slideArg,
                hovered, pausedTotal, drawn>>

\* touchStart (lines 1822-1828), touch at (clientX, clientY)
TouchStart(clientX, clientY, limit) ==
    /\ started
    /\ inputs < limit
    /\ inputs' = inputs + 1
    /\ lastInput' = [kind |-> "touchstart", no |-> inputs + 1]
    /\ IF OrbitPhase(scrollProgress, config)
          THEN /\ touchStartX' = clientX
               /\ touchStartY' = clientY
               /\ isTouchDragging' = FALSE
          ELSE UNCHANGED <<touchStartX, touchStartY, isTouchDragging>>
    /\ gesture' = [down |-> TRUE, startX |-> clientX,
                   taken |-> OrbitPhase(scrollProgress, config),
                   x |-> clientX, added |-> 0]
    /\ UNCHANGED <<motionVars, isMouseDragging, mouseStartX, mouseStartY, mouseHeld>>
    /\ DragFrame

\* touchMove (lines 1830-1853)
TouchMove(clientX, clientY, limit) ==
    /\ started
    /\ inputs < limit
    /\ inputs' = inputs + 1
    /\ lastInput' = [kind |-> "touchmove", no |-> inputs + 1]
    /\ LET dx == clientX - touchStartX
           dy == clientY - touchStartY
           dragging == isTouchDragging \/ Abs(dx) > 10 \/ Abs(dy) > 10
       IN  IF OrbitPhase(scrollProgress, config) /\ dragging
              THEN /\ isTouchDragging' = TRUE
                   /\ touchSpinOffset' = touchSpinOffset + SpinDelta(dx)
                   /\ touchSpinVelocity' = SpinDelta(dx)
                   /\ touchTiltOffset' = AddTilt(touchTiltOffset, TiltDelta(dy))
                   /\ touchTiltVelocity' = TiltDelta(dy)
                   /\ touchStartX' = clientX
                   /\ touchStartY' = clientY
                   /\ gesture' = [gesture EXCEPT !.x = clientX,
                                                 !.added = @ + SpinDelta(dx)]
              ELSE UNCHANGED <<motionVars, isTouchDragging, touchStartX, touchStartY,
                               gesture>>
    /\ UNCHANGED <<isMouseDragging, mouseStartX, mouseStartY, mouseHeld>>
    /\ DragFrame

\* touchEnd (line 1855)
TouchEnd(limit) ==
    /\ started
    /\ inputs < limit
    /\ inputs' = inputs + 1
    /\ lastInput' = [kind |-> "touchend", no |-> inputs + 1, tilt |-> touchTiltOffset]
    /\ isTouchDragging' = FALSE
    /\ gesture' = [gesture EXCEPT !.down = FALSE]
    /\ UNCHANGED <<motionVars, touchStartX, touchStartY,
                   isMouseDragging, mouseStartX, mouseStartY, mouseHeld>>
    /\ DragFrame

\* mouseDown (lines 1858-1866); onNode: the target is inside an .orbit-node.
\* The class is-dragging of the orbit menu is not modelled.
MouseDown(clientX, clientY, onNode, limit) ==
    /\ started
    /\ inputs < limit
    /\ inputs' = inputs + 1
    /\ lastInput' = [kind |-> IF onNode THEN "mousedown on node" ELSE "mousedown",
                     no |-> inputs + 1]
    /\ IF OrbitPhase(scrollProgress, config) /\ ~onNode
          THEN /\ isMouseDragging' = TRUE
               /\ mouseStartX' = clientX
               /\ mouseStartY' = clientY
          ELSE UNCHANGED <<isMouseDragging, mouseStartX, mouseStartY>>
    /\ mouseHeld' = IF ~(scrollProgress < config.orbit.start) /\ ~onNode
                       THEN TRUE ELSE mouseHeld
    /\ UNCHANGED gesture
    /\ UNCHANGED <<motionVars, isTouchDragging, touchStartX, touchStartY>>
    /\ DragFrame

\* mouseMoveHandler (lines 1868-1882)
MouseMoveHandler(clientX, clientY, limit) ==
    /\ started
    /\ inputs < limit
    /\ inputs' = inputs + 1
    /\ lastInput' = [kind |-> "mousemove", no |-> inputs + 1]
    /\ LET dx == clientX - mouseStartX
           dy == clientY - mouseStartY
       IN  IF isMouseDragging
              THEN /\ touchSpinOffset' = touchSpinOffset + SpinDelta(dx)
                   /\ touchSpinVelocity' = SpinDelta(dx)
                   /\ touchTiltOffset' = AddTilt(touchTiltOffset, TiltDelta(dy))
                   /\ touchTiltVelocity' = TiltDelta(dy)
                   /\ mouseStartX' = clientX
                   /\ mouseStartY' = clientY
              ELSE UNCHANGED <<motionVars, mouseStartX, mouseStartY>>
    /\ UNCHANGED <<isTouchDragging, touchStartX, touchStartY, isMouseDragging, mouseHeld,
                   gesture>>
    /\ DragFrame

\* mouseUp (lines 1884-1888)
MouseUp(limit) ==
    /\ started
    /\ inputs < limit
    /\ inputs' = inputs + 1
    /\ lastInput' = [kind |-> "mouseup", no |-> inputs + 1, tilt |-> touchTiltOffset]
    /\ isMouseDragging' = FALSE
    /\ mouseHeld' = FALSE
    /\ UNCHANGED gesture
    /\ UNCHANGED <<motionVars, isTouchDragging, touchStartX, touchStartY,
                   mouseStartX, mouseStartY>>
    /\ DragFrame

\* What the click listeners below leave alone
TapFrame ==
    UNCHANGED <<envVars, clockVars, energyVars, starVars, slideDom, orbitVars,
                motionVars, gestureVars, spokePulses,
                reported, frames, draws, resizes, warpPassed, starLog, slideArg,
                hovered, pausedTotal, drawn, mouseHeld, gesture>>

\* line 1900: the early return of the node listener, second tap on the popup
SecondTap(exp, k, onPopup) == k \in exp /\ onPopup

ExpandNodeKeepOthers(exp, k) == exp \cup {k}

\* lines 1905-1906: is-expanded is removed from every orbit node and then
\* added to the tapped node
ExpandNode(exp, k) == (exp \ (1..numNodes)) \cup {k}

\* lines 1914-1916: is-expanded is removed from every orbit node
CollapseAll(exp) == exp \ (1..numNodes)

\* A click whose target lies inside orbit node k, inside its popup if
\* onPopup.  The listener of the node (lines 1897-1907) runs if it was
\* registered (line 1895); the event then bubbles to the listener of the
\* orbit menu (lines 1912-1917), where closest(".orbit-node") finds the
\* node, so that listener changes nothing.  The nodes are taken to be
\* elements of class orbit-node inside the orbit menu, each holding its own
\* popup.
TapNode(k, onPopup, limit) ==
    /\ k \in 1..numNodes
    /\ inputs < limit
    /\ inputs' = inputs + 1
    /\ IF isTouchDevice /\ ~SecondTap(expanded, k, onPopup)
          THEN /\ expanded' = ExpandNode(expanded, k)
               /\ lastInput' = [kind |-> "tap node", no |-> inputs + 1, node |-> k,
                                popup |-> onPopup, prevented |-> TRUE]
          ELSE /\ expanded' = expanded
               /\ lastInput' = [kind |-> "tap node", no |-> inputs + 1, node |-> k,
                                popup |-> onPopup, prevented |-> FALSE]
    /\ TapFrame

\* A click whose target lies inside the orbit menu and inside no orbit node
\* (lines 1912-1917); no listener calls preventDefault
TapMenu(limit) ==
    /\ inputs < limit
    /\ inputs' = inputs + 1
    /\ expanded' = IF isTouchDevice THEN CollapseAll(expanded) ELSE expanded
    /\ lastInput' = [kind |-> "tap menu", no |-> inputs + 1, node |-> 0,
                     popup |-> FALSE, prevented |-> FALSE]
    /\ TapFrame

\* parseConfig (lines 169-201) applied to a wrapper whose attribute
\* data-motion-config is raw
CallParseConfig(raw) ==
    /\ rawConfig' = raw
    /\ config' = ParseConfig(raw).config
    /\ parseThrew' = ParseConfig(raw).threw
    /\ UNCHANGED <<reduceMotion, lowPowerDevice, isTouchDevice, numSlides,
                   globeSubdivisions, coreParticlesLength, ringVars,
                   clockVars, energyVars, starVars, slideDom, orbitVars,
                   motionVars, gestureVars, spokePulses, expanded, histVars>>

\* assignNodesToRings (lines 657-677) applied to orbit nodes with the
\* data-ring attributes attrs
CallAssignNodesToRings(attrs) ==
    LET assigned == AssignNodesToRings(attrs, config.orbit.rings, orbitAngles)
    IN  /\ numNodes' = Len(attrs)
        /\ ringAttrs' = attrs
        /\ nodeRingAssignments' = assigned.nodeRingAssignments
        /\ orbitAngles' = assigned.orbitAngles
        /\ threw' = assigned.threw
        /\ UNCHANGED <<baseVars, clockVars, energyVars, starVars, slideDom, orbitVars,
                       motionVars, gestureVars, spokePulses, expanded, histVars>>

\* updateSlidesFlyThrough applied to an arbitrary argument
CallUpdateSlides(progress) ==
    /\ slideDom' = UpdateSlidesFlyThrough(progress, numSlides, width)
    /\ slideArg' = progress
    /\ UNCHANGED <<envVars, clockVars, energyVars, starVars, orbitVars,
                   motionVars, gestureVars, spokePulses, expanded, drawn, lastInput, mouseHeld, gesture,
                   reported, inputs, frames, draws, resizes, warpPassed, starLog,
                   hovered, pausedTotal>>

----------------------------------------------------------------------------
(* Inputs of the environment *)

ViewportInputs == {<<1200, 800>>, <<400, 700>>}   \* innerWidth, innerHeight
PointerInputs  == {<<0, 0>>, <<1, 1>>}            \* pointer at a corner of the viewport
VelocityInputs == {0, -1500, 4500}                \* self.getVelocity(), px/s
EnergyProgressInputs == {0, 400, 1000}            \* self.progress
StarProgressInputs == {0, 600, 1000}
\* pointerEnergy at the start of the exploration: 0 after construction, or
\* what 27 pointermove events before the first frame leave (27 x 0.035)
PointerEnergyInputs == {0, 945}
\* data-motion-config variants: none, and a shallow, sparse field
StarConfigs ==
    {AbsentAttr,
     Json(Obj({<<"stars", Obj({<<"depth", Num(20)>>, <<"mobileCount", Num(300)>>})>>}))}
\* data-ring attributes: absent, empty, "1", "2", "0", "4", "x"
RingAttrInputs ==
    {NoAttr, Attr(<<>>), Attr(<<"1">>), Attr(<<"2">>),
     Attr(<<"0">>), Attr(<<"4">>), Attr(<<"x">>)}
\* data-motion-config variants: none (three rings), and one ring
RingConfigs ==
    {AbsentAttr,
     Json(Obj({<<"orbit", Obj({<<"rings", Arr(<<DefaultConfig.orbit.rings[3]>>)>>})>>}))}
\* self.progress with orbitReveal 0, 0.5 and 1
PulseProgressInputs == {300, 700, 1000}
\* data-motion-config: absent, empty, malformed, null, a number, and objects
\* in which fields and groups are missing, null, of another type or supplied
ConfigInputs ==
    LET heights == {{}, {<<"sequenceHeightDesktop", Null>>},
                    {<<"sequenceHeightDesktop", Num(600)>>}}
        animations == {{}, {<<"animation", Obj({<<"revealY", Num(10)>>})>>}}
        starGroups ==
            {{}, {<<"stars", Null>>}, {<<"stars", Num(7)>>}, {<<"stars", Obj({})>>},
             {<<"stars", Obj({<<"depth", Num(20)>>})>>},
             {<<"stars", Obj({<<"depth", Null>>, <<"mobileCount", Num(300)>>})>>}}
        orbitGroups ==
            {{}, {<<"orbit", Null>>},
             {<<"orbit", Obj({<<"start", Num(0)>>})>>},
             {<<"orbit", Obj({<<"start", Num(300)>>, <<"full", Null>>})>>},
             {<<"orbit", Obj({<<"rings", Arr(<<DefaultConfig.orbit.rings[3]>>)>>})>>},
             {<<"orbit", Obj({<<"rings", Null>>})>>}}
    IN  {AbsentAttr, EmptyAttr, BadJson, Json(Null), Json(Num(5))}
          \cup {Json(Obj(a \cup b \cup c \cup d)) :
                  a \in heights, b \in animations, c \in starGroups, d \in orbitGroups}
\* self.progress in steps of 0.05
StageProgressInputs == {50 * i : i \in 0..20}
\* data-motion-config variants: orbit.start 0.62 (default), 0, 0.3 and 1.5
StageConfigs ==
    {AbsentAttr} \cup {Json(Obj({<<"orbit", Obj({<<"start", Num(v)>>})>>})) : v \in {0, 300, 1500}}
\* clientX, clientY of touch and mouse events on the orbit menu
DragPoints == {<<100, 100>>, <<140, 60>>}
\* self.progress before and inside the orbit phase
DragProgressInputs == {300, 700}
\* arguments of updateSlidesFlyThrough: below 0, 0..1 in steps of 0.005, above 1
SlideArgInputs == {-50, 1200} \cup {5 * i : i \in 0..200}

----------------------------------------------------------------------------
(* Specifications *)

\* Scroll tracker: scroll updates, pointer moves and frames; no star followed.
InitEnergy ==
    InitWith({AbsentAttr}, BOOLEAN, {FALSE}, {4}, {0}, {<<1200, 800>>},
             0, PointerEnergyInputs, {<<250, 370>>}, {NoAttr})

NextEnergy ==
    \/ Start
    \/ Frame(MaxFrames)
    \/ \E p \in EnergyProgressInputs, v \in VelocityInputs : OnUpdate(p, v, MaxInputs)
    \/ \E c \in PointerInputs : PointerMove(c[1] * width, c[2] * height, MaxInputs)

SpecEnergy == InitEnergy /\ [][NextEnergy]_vars

\* Star field: frames at varying intervals, scroll updates and resizes.
InitStars ==
    InitWith(StarConfigs, BOOLEAN, BOOLEAN, {4}, {0}, {<<1200, 800>>},
             TrackedStars, {0}, {<<250, 370>>}, {NoAttr})

NextStars ==
    \/ Start
    \/ Frame(MaxStarFrames)
    \/ Tick(MaxStarTicks)
    \/ \E p \in StarProgressInputs : OnUpdate(p, 0, MaxStarInputs)
    \/ \E vp \in ViewportInputs : Resize(vp[1], vp[2], MaxStarInputs)

SpecStars == InitStars /\ [][NextStars]_vars

\* Title sequencer: updateSlidesFlyThrough on every argument.
InitSlides ==
    InitWith({AbsentAttr}, {FALSE}, {FALSE}, 1..MaxSlides, {0}, ViewportInputs,
             0, {0}, {<<250, 370>>}, {NoAttr})

NextSlides == \E p \in SlideArgInputs : CallUpdateSlides(p)

SpecSlides == InitSlides /\ [][NextSlides]_vars

\* Orbit hover-pause: mouseenter/mouseleave on the nodes, time and frames.
InitOrbit ==
    InitWith({AbsentAttr}, {FALSE}, {FALSE}, {4}, 1..MaxNodes, {<<1200, 800>>},
             0, {0}, {<<250, 370>>}, {NoAttr})

NextOrbit ==
    \/ Start
    \/ Frame(MaxFrames)
    \/ Tick(MaxTicks)
    \/ \E k \in 1..numNodes : MouseEnter(k)
    \/ \E k \in 1..numNodes : MouseLeave(k)

SpecOrbit == InitOrbit /\ [][NextOrbit]_vars

\* Drag input: touch and mouse gestures on the orbit menu, scroll updates
\* that enter and leave the orbit phase, and frames.
InitDrag ==
    InitWith({AbsentAttr}, {FALSE}, {FALSE}, {4}, {0}, {<<1200, 800>>},
             0, {0}, {<<250, 370>>}, {NoAttr})

NextDrag ==
    \/ Start
    \/ Frame(MaxDragFrames)
    \/ \E p \in DragProgressInputs : OnUpdate(p, 0, MaxDragInputs)
    \/ \E c \in DragPoints : TouchStart(c[1], c[2], MaxDragInputs)
    \/ \E c \in DragPoints : TouchMove(c[1], c[2], MaxDragInputs)
    \/ TouchEnd(MaxDragInputs)
    \/ \E c \in DragPoints, onNode \in BOOLEAN : MouseDown(c[1], c[2], onNode, MaxDragInputs)
    \/ \E c \in DragPoints : MouseMoveHandler(c[1], c[2], MaxDragInputs)
    \/ MouseUp(MaxDragInputs)

SpecDrag == InitDrag /\ [][NextDrag]_vars

\* Ring assignment: assignNodesToRings on every list of data-ring attributes.
InitRings ==
    InitWith(RingConfigs, {FALSE}, {FALSE}, {4}, {0}, {<<1200, 800>>},
             0, {0}, {<<250, 370>>}, {NoAttr})

NextRings ==
    \E n \in 1..MaxNodes : \E attrs \in [1..n -> RingAttrInputs] :
        CallAssignNodesToRings(attrs)

SpecRings == InitRings /\ [][NextRings]_vars

\* Spoke pulses: frames at varying intervals before and after the reveal.
InitPulses ==
    InitWith({AbsentAttr}, {FALSE}, {FALSE}, {4}, 1..2, {<<1200, 800>>},
             0, {0}, PulseDraws, {NoAttr})

NextPulses ==
    \/ Start
    \/ Frame(MaxFrames)
    \/ Tick(MaxTicks)
    \/ \E p \in PulseProgressInputs : OnUpdate(p, 0, MaxInputs)

SpecPulses == InitPulses /\ [][NextPulses]_vars

\* Stage blender and star speed: draw on every scroll progress, for several
\* orbit.start and slide counts, with and without reduced motion.
InitStage ==
    InitWith(StageConfigs, BOOLEAN, {FALSE}, 1..MaxSlides, {0}, {<<1200, 800>>},
             0, {0}, {<<250, 370>>}, {NoAttr})

NextStage ==
    \/ Start
    \/ Frame(MaxStageFrames)
    \/ \E p \in StageProgressInputs : OnUpdate(p, 0, MaxStageInputs)

SpecStage == InitStage /\ [][NextStage]_vars

\* Energy decay: frames that keep running (every run of draw requests the
\* next frame, and the browser runs a requested frame), and inputs at any
\* moment that leaves room for FramesToRest more frames in the exploration.
InitDecay ==
    InitWith({AbsentAttr}, {FALSE}, {FALSE}, {4}, {0}, {<<1200, 800>>},
             0, {0}, {<<250, 370>>}, {NoAttr})

NextDecay ==
    \/ Start
    \/ Frame(MaxDecayFrames)
    \/ frames + FramesToRest <= MaxDecayFrames /\ OnUpdate(400, 4500, MaxDecayInputs)
    \/ frames + FramesToRest <= MaxDecayFrames
          /\ PointerMove(width \div 2, height \div 2, MaxDecayInputs)

SpecDecay ==
    /\ InitDecay
    /\ [][NextDecay]_vars
    /\ WF_vars(Start)
    /\ WF_vars(Frame(MaxDecayFrames))

\* Configuration: parseConfig on every data-motion-config.
InitConfig ==
    InitWith({AbsentAttr}, {FALSE}, {FALSE}, {4}, {0}, {<<1200, 800>>},
             0, {0}, {<<250, 370>>}, {NoAttr})

NextConfig == \E raw \in ConfigInputs : CallParseConfig(raw)

SpecConfig == InitConfig /\ [][NextConfig]_vars

\* Start-up on a desktop or a mobile viewport, then frames and resizes.
InitGlobe ==
    InitWith({AbsentAttr}, BOOLEAN, BOOLEAN, {4}, {0}, ViewportInputs,
             0, {0}, {<<250, 370>>}, {NoAttr})

NextGlobe ==
    \/ Start
    \/ Frame(MaxFrames)
    \/ \E vp \in ViewportInputs : Resize(vp[1], vp[2], MaxInputs)

SpecGlobe == InitGlobe /\ [][NextGlobe]_vars

\* Taps on the orbit nodes, their popups and the menu background, on
\* devices with and without touch support.
InitTaps ==
    InitDevice({AbsentAttr}, {FALSE}, {FALSE}, BOOLEAN, {4}, 1..3, {<<1200, 800>>},
               0, {0}, {<<250, 370>>}, {NoAttr})

NextTaps ==
    \/ \E k \in 1..3, onPopup \in BOOLEAN : TapNode(k, onPopup, MaxTaps)
    \/ TapMenu(MaxTaps)

SpecTaps == InitTaps /\ [][NextTaps]_vars

\* Tilt: vertical drags by touch and by mouse in the orbit phase, and frames.
TiltPoints == {<<100, 500>>, <<100, 300>>, <<100, 100>>}

InitTilt ==
    InitWith({AbsentAttr}, {FALSE}, {FALSE}, {4}, {0}, {<<1200, 800>>},
             0, {0}, {<<250, 370>>}, {NoAttr})

NextTilt ==
    \/ Start
    \/ Frame(MaxTiltFrames)
    \/ OnUpdate(900, 0, 1)
    \/ \E c \in TiltPoints : TouchStart(c[1], c[2], MaxTiltInputs)
    \/ \E c \in TiltPoints : TouchMove(c[1], c[2], MaxTiltInputs)
    \/ TouchEnd(MaxTiltInputs)
    \/ \E c \in TiltPoints : MouseDown(c[1], c[2], FALSE, MaxTiltInputs)
    \/ \E c \in TiltPoints : MouseMoveHandler(c[1], c[2], MaxTiltInputs)
    \/ MouseUp(MaxTiltInputs)

SpecTilt == InitTilt /\ [][NextTilt]_vars

\* Spring-back: with orbit.start configured as 0 the orbit phase holds from
\* the start; short vertical drags while at least FramesToSettle frames
\* remain in the exploration, and frames that keep running (every run of
\* draw requests the next frame).
SpringDown == <<0, 0>>
SpringMoves == {<<11, 1>>}

InitSpring ==
    InitWith({Json(Obj({<<"orbit", Obj({<<"start", Num(0)>>})>>}))}, {FALSE}, {FALSE},
             {4}, {0}, {<<1200, 800>>}, 0, {0}, {<<250, 370>>}, {NoAttr})

\* Gestures in their order: a finger goes down, moves and is lifted; the
\* mouse button goes down, the mouse moves and the button is released
SpringInput ==
    \/ ~gesture.down /\ TouchStart(SpringDown[1], SpringDown[2], MaxSpringInputs)
    \/ \E c \in SpringMoves : gesture.down /\ TouchMove(c[1], c[2], MaxSpringInputs)
    \/ gesture.down /\ TouchEnd(MaxSpringInputs)
    \/ ~mouseHeld /\ MouseDown(SpringDown[1], SpringDown[2], FALSE, MaxSpringInputs)
    \/ \E c \in SpringMoves : mouseHeld /\ MouseMoveHandler(c[1], c[2], MaxSpringInputs)
    \/ mouseHeld /\ MouseUp(MaxSpringInputs)

NextSpring ==
    \/ Start
    \/ Frame(MaxSpringFrames)
    \/ frames + FramesToSettle <= MaxSpringFrames /\ SpringInput

SpecSpring ==
    /\ InitSpring
    /\ [][NextSpring]_vars
    /\ WF_vars(Start)
    /\ WF_vars(Frame(MaxSpringFrames))

\* Touch gestures of one finger (touchstart, touchmoves, touchend) with
\* scroll updates that enter and leave the orbit phase, and frames.
InitTouch ==
    InitWith({AbsentAttr}, {FALSE}, {FALSE}, {4}, {0}, {<<1200, 800>>},
             0, {0}, {<<250, 370>>}, {NoAttr})

NextTouch ==
    \/ Start
    \/ Frame(MaxTouchFrames)
    \/ \E p \in DragProgressInputs : OnUpdate(p, 0, MaxTouchInputs)
    \/ \E c \in DragPoints : ~gesture.down /\ TouchStart(c[1], c[2], MaxTouchInputs)
    \/ \E c \in DragPoints : gesture.down /\ TouchMove(c[1], c[2], MaxTouchInputs)
    \/ gesture.down /\ TouchEnd(MaxTouchInputs)

SpecTouch == InitTouch /\ [][NextTouch]_vars

\* Frame scheduling: with and without reduced motion, scroll updates and
\* resizes (the only input events here), and frames.
InitSchedule ==
    InitWith({AbsentAttr}, BOOLEAN, {FALSE}, {4}, {0}, {<<1200, 800>>},
             0, {0}, {<<250, 370>>}, {NoAttr})

NextSchedule ==
    \/ Start
    \/ Frame(MaxFrames)
    \/ \E p \in DragProgressInputs, v \in VelocityInputs : OnUpdate(p, v, MaxInputs)
    \/ \E vp \in ViewportInputs : Resize(vp[1], vp[2], MaxInputs)

SpecSchedule == InitSchedule /\ [][NextSchedule]_vars

----------------------------------------------------------------------------
(* Claims *)

\* C1: under any interleaving of scroll updates, pointer moves and frames,
\* scrollProgress is the progress of the latest scroll update, scrollEnergy
\* stays within [0, 2] and pointerEnergy within [0, 1].
C1_EnergyBounds ==
    /\ scrollProgress = reported
    /\ 0 <= scrollEnergy /\ scrollEnergy <= 2000
    /\ 0 <= pointerEnergy /\ pointerEnergy <= 1000

\* The scroll energy sits at its upper limit after updates and a draw.
C1_Witness ==
    /\ scrollEnergy = 2000
    /\ scrollProgress = 1000
    /\ draws >= 1
    /\ inputs = MaxInputs

\* C2: a star whose z is 1 or less after being advanced is reset to
\* config.stars.depth before it is projected, so with depth > 1 no star is
\* projected with z <= 1; a star projected more than 120px outside the
\* viewport is recycled and not drawn in that frame.
C2_StarRecycle ==
    \A i \in DOMAIN stars :
        starLog[i].visited =>
            /\ starLog[i].advancedZ <= 1000
                  => starLog[i].projectedZ = config.stars.depth * 1000
            /\ config.stars.depth > 1 => starLog[i].projectedZ > 1000
            /\ (\/ starLog[i].sx < -120 \/ starLog[i].sx > width + 120
                \/ starLog[i].sy < -120 \/ starLog[i].sy > height + 120)
                  => /\ ~starLog[i].drawn
                     /\ stars[i].z = config.stars.depth * 1000
                     /\ ~stars[i].initialized

\* One star passed the camera and was drawn, another left the viewport.
C2_Witness ==
    /\ config.stars.depth > 1
    /\ \E i, j \in DOMAIN stars :
          /\ starLog[i].visited /\ starLog[i].advancedZ <= 1000 /\ starLog[i].drawn
          /\ starLog[j].visited /\ starLog[j].sx < -120 /\ ~starLog[j].drawn

\* C3: a streak is drawn for a star only if the warp strength handed to
\* drawStarField exceeds 0.07, reduced motion is off, and the streak starts
\* at the position recorded by the previous run of draw in the star's
\* current life (no recycle or rebuild in between).
C3_StreakWithinLife ==
    \A i \in DOMAIN stars :
        starLog[i].streak =>
            /\ warpPassed > 70
            /\ ~reduceMotion
            /\ starLog[i].streakFromDraw = draws - 1
            /\ starLog[i].streakFromLife = starLog[i].life

\* A streak is drawn for one star while another was recycled in the same frame.
C3_Witness ==
    \E i, j \in DOMAIN stars :
        /\ starLog[i].streak
        /\ starLog[j].visited /\ ~starLog[j].drawn

\* C4: the pool keeps its size between resizes (recycling never adds or
\* removes a star) and always holds max(220, round(configuredCount x
\* powerMultiplier)) stars, at least 220.
C4_PoolSize ==
    [][ /\ (resizes' = resizes => starsLength' = starsLength)
        /\ starsLength' >= 220
        /\ starsLength' =
             Max(220, RoundDiv((IF isMobile' THEN config'.stars.mobileCount
                                             ELSE config'.stars.desktopCount)
                                 * (IF lowPowerDevice' THEN 62 ELSE 100), 100)) ]_vars

\* After a resize to the mobile viewport the floor of 220 applies, and a
\* star has been recycled since.
C4_Witness ==
    /\ resizes >= 1
    /\ isMobile
    /\ starsLength = 220
    /\ \E i \in DOMAIN stars : starLog[i].visited /\ starLog[i].life >= 2

\* Index and intra-slide progress of the slide that the latest call of
\* updateSlidesFlyThrough should have made active
ArgIndex == (Clamp(slideArg, 0, 999) * numSlides) \div 1000
ArgT == Clamp(slideArg, 0, 999) * numSlides - ArgIndex * 1000

\* C5: after updateSlidesFlyThrough(progress), for any progress and n >= 1,
\* exactly the slide floor(clamp(progress, 0, 0.999) x n) is active, it lies
\* in 0..n-1, every other slide has opacity 0, earlier slides are parked at
\* the exit offset with scale 3.5, later ones at the entry offset with 0.25.
C5_OneActiveSlide ==
    /\ ArgIndex \in 0..(numSlides - 1)
    /\ DOMAIN slideDom = 1..numSlides
    /\ \A k \in 1..numSlides :
          /\ slideDom[k].active <=> (k - 1 = ArgIndex)
          /\ k - 1 # ArgIndex => slideDom[k].opacity = 0
          /\ k - 1 < ArgIndex =>
                /\ slideDom[k].translateX = ExitTx(width)
                /\ slideDom[k].translateY = ExitTy(width)
                /\ slideDom[k].scale = 3500
          /\ k - 1 > ArgIndex =>
                /\ slideDom[k].translateX = EntryTx(width)
                /\ slideDom[k].translateY = EntryTy(width)
                /\ slideDom[k].scale = 250

\* A progress above 1 leaves the last of four slides active, the others parked.
C5_Witness ==
    /\ numSlides = 4
    /\ slideArg = 1200
    /\ slideDom[4].active
    /\ slideDom[1].scale = 3500

\* C6: an active slide that is neither first nor last flies in for t < 0.15
\* (offset from the entry offset to (0,0), scale 0.25 to 1, translation on
\* the entry side), holds for 0.15 <= t < 0.75 (offset (0,0), scale 1,
\* opacity 1) and flies out for t >= 0.75 (offset from (0,0) to the exit
\* offset, scale 1 to 3.5, translation on the exit side).
C6_Phases ==
    (0 < ArgIndex /\ ArgIndex < numSlides - 1) =>
        LET sl == slideDom[ArgIndex + 1]
        IN  /\ ArgT < 150 =>
                /\ 0 <= sl.offX /\ sl.offX <= EntryTx(width)
                /\ 0 <= sl.offY /\ sl.offY <= EntryTy(width)
                /\ 250 <= sl.scale /\ sl.scale <= 1000
                /\ sl.translateX >= 0 /\ sl.translateY >= 0
                /\ ArgT = 0 => /\ sl.offX = EntryTx(width) /\ sl.offY = EntryTy(width)
                               /\ sl.scale = 250
            /\ (150 <= ArgT /\ ArgT < 750) =>
                /\ sl.translateX = 0 /\ sl.translateY = 0
                /\ sl.scale = 1000 /\ sl.opacity = 1000
            /\ ArgT >= 750 =>
                /\ ExitTx(width) <= sl.offX /\ sl.offX <= 0
                /\ ExitTy(width) <= sl.offY /\ sl.offY <= 0
                /\ 1000 <= sl.scale /\ sl.scale <= 3500
                /\ sl.translateX <= 0 /\ sl.translateY <= 0
                /\ ArgT = 750 => /\ sl.translateX = 0 /\ sl.translateY = 0
                                 /\ sl.scale = 1000

\* The second of four slides is well into its fly-out.
C6_Witness ==
    /\ numSlides = 4
    /\ ArgIndex = 1
    /\ ArgT >= 900
    /\ slideDom[2].active
    /\ slideDom[2].translateX < 0
    /\ slideDom[2].scale > 3000

\* C7: for every n >= 1, once the last slide is active with t >= 0.15 it
\* has opacity 1, zero translation and scale 1 and never flies out.
C7_LastSlideHolds ==
    (ArgIndex = numSlides - 1 /\ ArgT >= 150) =>
        /\ slideDom[numSlides].opacity = 1000
        /\ slideDom[numSlides].translateX = 0
        /\ slideDom[numSlides].translateY = 0
        /\ slideDom[numSlides].scale = 1000

\* C8: whenever slide 0 is active with t < 0.75, the initial
\* updateSlidesFlyThrough(0) included, it has opacity 1, zero translation
\* and scale 1; for t >= 0.75 it flies out along the exit direction.
C8_HeroNeverFliesIn ==
    ArgIndex = 0 =>
        /\ slideDom[1].active
        /\ ArgT < 750 =>
              /\ slideDom[1].opacity = 1000
              /\ slideDom[1].translateX = 0 /\ slideDom[1].translateY = 0
              /\ slideDom[1].scale = 1000
        /\ ArgT >= 750 =>
              /\ ExitTx(width) <= slideDom[1].offX /\ slideDom[1].offX <= 0
              /\ ExitTy(width) <= slideDom[1].offY /\ slideDom[1].offY <= 0
              /\ slideDom[1].translateX <= 0 /\ slideDom[1].translateY <= 0
              /\ slideDom[1].scale >= 1000

\* The hero of four slides early in its segment, where another slide would fly in.
C8_Witness ==
    /\ numSlides = 4
    /\ slideArg = 10
    /\ slideDom[1].active
    /\ slideDom[1].opacity = 1000

\* C9: getOrbitTime is the elapsed time minus the time spent paused; it is
\* constant while paused, never decreases and does not jump at a resume.
C9_OrbitTime ==
    [][ /\ GetOrbitTime(clock) = clock - pausedTotal
        /\ GetOrbitTime(clock)' = clock' - pausedTotal'
        /\ GetOrbitTime(clock)' >= GetOrbitTime(clock)
        /\ (orbitPaused /\ orbitPaused') => GetOrbitTime(clock)' = GetOrbitTime(clock)
        /\ (orbitPaused /\ ~orbitPaused') => GetOrbitTime(clock)' = GetOrbitTime(clock) ]_vars

\* The orbit has been paused for a while, was resumed and ran on.
C9_Witness ==
    /\ ~orbitPaused
    /\ pauseTimeOffset > 0
    /\ pausedTotal = pauseTimeOffset
    /\ clock > pauseStartTime + pauseTimeOffset
    /\ draws >= 1

\* C10: in every interleaving of mouseenter and mouseleave events over the
\* orbit nodes, orbitPaused is true while the pointer is over at least one
\* node.
C10_PausedWhileHovering ==
    hovered # {} => orbitPaused

\* C11: touchStart and touchMove leave spin, tilt, their velocities and the
\* drag flags unchanged while scrollProgress < config.orbit.start; mouseDown
\* starts no drag while scrollProgress < config.orbit.start or on an orbit
\* node; a mouse move changes spin or tilt only between an accepted
\* mousedown and the next mouseup.
C11_DragGated ==
    [][lastInput'.no # lastInput.no =>
         /\ (lastInput'.kind \in {"touchstart", "touchmove"}
               /\ scrollProgress < config.orbit.start)
              => UNCHANGED <<motionVars, isTouchDragging, isMouseDragging>>
         /\ (lastInput'.kind = "mousedown on node"
               \/ (lastInput'.kind = "mousedown" /\ scrollProgress < config.orbit.start))
              => (isMouseDragging' = isMouseDragging)
         /\ (lastInput'.kind = "mousemove"
               /\ <<touchSpinOffset, touchTiltOffset>>' # <<touchSpinOffset, touchTiltOffset>>)
              => mouseHeld]_vars

\* Inside the orbit phase a mouse move between an accepted mousedown and
\* the next mouseup has changed the spin.
C11_Witness ==
    /\ lastInput.kind = "mousemove"
    /\ mouseHeld
    /\ touchSpinOffset # 0
    /\ scrollProgress >= config.orbit.start
    /\ inputs >= 3

\* The ring the claim gives a node: data-ring minus 1, or 1 without the attribute
ClaimedRing(attr) == IF attr.present THEN ParseInt(attr.text).value - 1 ELSE 1

\* C12: assignNodesToRings assigns every orbit node to exactly one ring
\* (data-ring minus 1, or ring index 1 when the attribute is absent) and
\* gives every node a defined base angle: the k-th of the n nodes sharing a
\* ring gets (k / n) * 2 pi - pi / 2.
C12_RingsAssigned ==
    /\ ~threw
    /\ DOMAIN nodeRingAssignments = 1..numNodes
    /\ DOMAIN orbitAngles = 1..numNodes
    /\ \A i \in 1..numNodes :
         LET ring == nodeRingAssignments[i].value
             sharing == {j \in 1..numNodes : nodeRingAssignments[j].value = ring}
             k == Cardinality({j \in sharing : j < i})
         IN  /\ ~nodeRingAssignments[i].nan
             /\ ring = ClaimedRing(ringAttrs[i])
             /\ ring \in 0..(Len(config.orbit.rings) - 1)
             /\ orbitAngles[i] = (k * 62832) \div Cardinality(sharing) - 15708

\* C13: from one frame with orbitReveal > 0.3 to the next, every spoke
\* pulse is drawn nearer to the globe center (its distance from the center
\* is progress times the length of the spoke), or, having arrived, is back
\* at the node end of the spoke.
C13_PulsesTowardCenter ==
    [][(draws > 0 /\ draws' = draws + 1
          /\ drawn.orbitReveal > 300 /\ drawn'.orbitReveal > 300) =>
         \A i \in DOMAIN spokePulses : \A j \in DOMAIN spokePulses[i] :
            LET t == spokePulses[i][j].progress
                tNext == spokePulses'[i][j].progress
            IN  tNext < t \/ (t < 100000 /\ tNext > 900000)]_vars

\* C14: in every draw the stage blender picks stageLower and stageUpper in
\* 0..2 with stageUpper = min(2, stageLower + 1) and a mix in [0, 1); at
\* slideProgress 0 what is drawn (background, haze, star palette) is exactly
\* theme 0, at slideProgress 1 exactly theme 2.
C14_StageBlend ==
    draws > 0 =>
      /\ drawn.stageLower \in 0..2
      /\ drawn.stageUpper \in 0..2
      /\ drawn.stageUpper = Min(2, drawn.stageLower + 1)
      /\ 0 <= drawn.stageMix /\ drawn.stageMix < 1000
      /\ \A k \in {0, 2} :
           drawn.slideProgress = k * 500 =>
             /\ drawn.base = StageThemes[k + 1].base
             /\ drawn.hazeA = StageThemes[k + 1].hazeA
             /\ drawn.hazeB = StageThemes[k + 1].hazeB
             /\ drawn.palette = StageThemes[k + 1].palette

\* C15: with reduced motion off and frames that keep running, once the
\* scroll updates and pointer moves have ended both energies reach exactly
\* 0 after finitely many frames, and an energy pair of 0 stays 0 until the
\* next input event.
C15_EnergyDecays ==
    /\ <>[](scrollEnergy = 0 /\ pointerEnergy = 0)
    /\ [][(scrollEnergy = 0 /\ pointerEnergy = 0 /\ inputs' = inputs)
            => (scrollEnergy' = 0 /\ pointerEnergy' = 0)]_vars

\* A scroll update has raised the scroll energy and frames have brought
\* both energies to 0.
C15_Witness ==
    /\ inputs = MaxDecayInputs
    /\ reported = 400
    /\ pointerEnergy = 0 /\ scrollEnergy = 0
    /\ frames >= 40
    /\ ~reduceMotion

\* C16: parseConfig never throws; it returns the default configuration when
\* data-motion-config is absent, empty, not valid JSON or JSON null;
\* otherwise every field that is present and non-null in the JSON has the
\* supplied value and every other field its default value.
C16_ParseConfig ==
    LET json == rawConfig.json
        has(obj, key) == obj.t = "object" /\ key \in DOMAIN obj.v /\ obj.v[key].t # "null"
        topKeys == {"sequenceHeightDesktop", "sequenceHeightMobile"}
        groups == {"animation", "stars", "orbit"}
    IN  /\ ~parseThrew
        /\ IF ~rawConfig.present \/ rawConfig.empty \/ ~rawConfig.valid \/ json.t = "null"
              THEN config = DefaultConfig
              ELSE /\ DOMAIN config = DOMAIN DefaultConfig
                   /\ \A key \in topKeys :
                        config[key] = IF has(json, key) THEN json.v[key].v
                                                         ELSE DefaultConfig[key]
                   /\ \A group \in groups :
                        /\ DOMAIN config[group] = DOMAIN DefaultConfig[group]
                        /\ \A key \in DOMAIN DefaultConfig[group] :
                             config[group][key] =
                                IF has(json, group) /\ has(json.v[group], key)
                                   THEN json.v[group].v[key].v
                                   ELSE DefaultConfig[group][key]

\* An object that supplies orbit.start and sets orbit.full to null has been parsed.
C16_Witness ==
    /\ rawConfig.valid
    /\ rawConfig.json.t = "object"
    /\ "orbit" \in DOMAIN rawConfig.json.v
    /\ config.orbit.start = 300
    /\ config.orbit.full = DefaultConfig.orbit.full
    /\ config.stars = DefaultConfig.stars

\* The phase of a slide at intra-slide position t: fly-in below 0.15, hold
\* below 0.75, fly-out from 0.75 on
PhaseOf(t) == IF t < 150 THEN "fly-in" ELSE IF t < 750 THEN "hold" ELSE "fly-out"

\* C17: in every frame the slide index and the phase from which draw
\* computes continuousSpeed are the slide index and the phase that
\* updateSlidesFlyThrough uses for the active title.
C17_SpeedInSync ==
    draws > 0 =>
      /\ slideArg = drawn.slideProgress
      /\ drawn.speedIndex = ArgIndex
      /\ PhaseOf(drawn.speedT) = PhaseOf(ArgT)

\* C18: in a draw with orbitReveal > 0.1 the warp strength and the stage
\* speed handed to drawStarField are both 0, and no star is drawn as a
\* warp streak.
C18_NoWarpInOrbit ==
    (draws > 0 /\ drawn.orbitReveal > 100) =>
      /\ drawn.warpStrength = 0
      /\ warpPassed = 0
      /\ drawn.stageSpeed = 0
      /\ \A i \in DOMAIN starLog : ~starLog[i].streak

\* C19: at start-up (before any later resize) a viewport narrower than 900
\* has a hex globe of 2 subdivisions and 180 core particles, any other
\* viewport 3 subdivisions and 400 particles.
C19_GlobeDetail ==
    resizes = 0 =>
      IF width < 900
         THEN globeSubdivisions = 2 /\ coreParticlesLength = 180
         ELSE globeSubdivisions = 3 /\ coreParticlesLength = 400

\* C20: on a touch device at most one orbit node carries is-expanded after
\* any sequence of taps; a tap on a node, other than one on the popup of a
\* node that is expanded already, leaves exactly that node expanded and has
\* its default prevented; a tap on the popup of the node that is expanded
\* already is not prevented; a tap on the menu outside every node leaves no
\* node expanded.
C20_TapToExpand ==
    /\ [](isTouchDevice => Cardinality(expanded) <= 1)
    /\ [][(isTouchDevice /\ lastInput'.no # lastInput.no) =>
           /\ (lastInput'.kind = "tap node"
                 /\ ~(lastInput'.node \in expanded /\ lastInput'.popup))
                => (expanded' = {lastInput'.node} /\ lastInput'.prevented)
           /\ (lastInput'.kind = "tap node"
                 /\ lastInput'.node \in expanded /\ lastInput'.popup)
                => ~lastInput'.prevented
           /\ lastInput'.kind = "tap menu" => expanded' = {}]_vars

\* A second tap, on the popup of the expanded node, after the expansion
\* had moved from another node
C20_Witness ==
    /\ isTouchDevice
    /\ inputs >= 3
    /\ lastInput.kind = "tap node"
    /\ lastInput.popup
    /\ ~lastInput.prevented
    /\ expanded = {lastInput.node}

\* C21: touchTiltOffset lies within [-1.2, 1.2] radians in every reachable
\* state, whatever the interleaving of touch drags, mouse drags and frames.
C21_TiltBounded ==
    touchTiltOffset >= -12000 /\ touchTiltOffset <= 12000

\* C22: once no drag is in progress and no further drag event arrives, the
\* frames bring touchTiltOffset to exactly 0 after finitely many frames and
\* it stays 0 from then on.
C22_TiltSpringsBack ==
    /\ <>[]((~isTouchDragging /\ ~isMouseDragging) => touchTiltOffset = 0)
    /\ [][(frames' # frames /\ ~isTouchDragging /\ ~isMouseDragging
            /\ touchTiltOffset = 0 /\ Abs(touchTiltVelocity) <= 1)
           => touchTiltOffset' = 0]_vars

\* A gesture was released with the tilt away from 0 and the frames since
\* then have brought the tilt to 0
C22_Witness ==
    /\ lastInput.kind \in {"touchend", "mouseup"}
    /\ lastInput.tilt # 0
    /\ ~isTouchDragging /\ ~isMouseDragging
    /\ frames > 0
    /\ touchTiltOffset = 0

\* C23: in a touch gesture in which dragging has been recognised, the spin
\* that the touch handlers have added to touchSpinOffset is 0.004 times the
\* horizontal distance of the finger from the place of the touchstart of
\* that gesture, wherever the scroll progress was at the touchstart.
C23_SpinFollowsFinger ==
    (gesture.down /\ isTouchDragging)
      => gesture.added = SpinDelta(gesture.x - gesture.startX)

\* C24: whatever configuration parseConfig returned, the ring index stored
\* for every orbit node is an index of config.orbit.rings, so that neither
\* assignNodesToRings nor a frame reads a ring that is not there.
C24_RingIndexValid ==
    /\ ~threw
    /\ \A i \in DOMAIN nodeRingAssignments :
         HasBucket(nodeRingAssignments[i], config.orbit.rings)

\* C25: with reduced motion off at most one frame request for draw is
\* pending and draw runs only as a frame callback (never from a scroll
\* update); with reduced motion on no frame is ever requested or run and
\* draw has run once at initialisation and once for every scroll update.
\* The input events of SpecSchedule are scroll updates and resizes, so the
\* number of scroll updates is inputs - resizes.
C25_FrameScheduling ==
    /\ ~reduceMotion =>
          /\ pendingFrames <= 1
          /\ draws = frames
    /\ reduceMotion =>
          /\ pendingFrames = 0
          /\ frames = 0
          /\ draws = (IF started THEN 1 ELSE 0) + (inputs - resizes)

\* Reduced motion: initialisation, two scroll updates and a resize
C25_Witness ==
    /\ reduceMotion
    /\ started
    /\ resizes = 1
    /\ inputs = 3
    /\ draws = 3

====
